---- MODULE Spec2Model ----
(***************************************************************************)
(* Model of src/main.py: the paginated extraction loop                     *)
(* (DynamicPrisonerScraper), the full run (main / scrap_data /             *)
(* transform_data) and the pure helpers of PrisonerDataTransformer         *)
(* (safe_map, split_demographics).                                         *)
(***************************************************************************)
EXTENDS Naturals, Integers, Sequences, FiniteSets, TLC

(* ------------------------------ bounds -------------------------------- *)
\* largest page-count ceiling passed to scrape_all_pages
MaxCeil == 2
\* largest number of record blocks on one page of the modelled site
MaxRows == 2
\* number of full runs (invocations of main) that are followed
MaxRuns == 2
\* longest demographics composite, in text units
MaxCompLen == 3
\* largest batch given to split_demographics
MaxBatch == 2

\* the loop is followed for this many fetches; a loop still running after
\* them stands for one that does not terminate
MaxFetch == MaxCeil + 1

(* --------------------------- program constants ------------------------ *)
\* skip += 20
Stride == 20

\* max_pages: int = None; None is encoded as -1
None == -1

VARIABLES
    pc,              \* position of the full run
    run,             \* index of the current full run
    max_pages,       \* parameter of scrape_all_pages
    site,            \* number of record blocks on each page of the listing
    rawFile,         \* output/prisoners_data.csv
    playwright,      \* self.playwright is started
    browser,         \* self.browser is launched
    context,         \* self.context is open
    all_prisoners,   \* local of scrape_all_pages
    skip,            \* local of scrape_all_pages
    page_num,        \* local of scrape_all_pages
    prisoners,       \* result of the last get_page_data
    outcome,         \* what happened inside the last get_page_data
    exc,             \* an exception is propagating
    fetches,         \* offsets passed to get_page_data in this run
    results,         \* page results returned by get_page_data in this run
    sessions,        \* init_browser calls in this run
    rawAtStart,      \* the raw file existed when scrap_data looked for it
    skipped,         \* scrap_data returned at "File already exists"
    rawWritten,      \* save_to_csv touched the raw file in this run
    harvestRun,      \* run whose save_to_csv wrote the raw file, 0 if none
    envRemoved,      \* the raw file was removed from outside in this run
    transformRan,    \* transform_data was entered in this run
    inputFound,      \* read_csv found the input file
    transformFailed, \* transform_data ended in one of its except clauses
    wroteTransformed,\* what this run wrote of prisoners_data_transformed.csv
    wroteStats,      \* what this run wrote of validation_stats.md
    exitStatus,      \* exit status of the process, -1 while running
    observed,        \* <<inputFound, exitStatus>> of the runs that transformed
    sm_value,        \* safe_map: argument value
    sm_table,        \* safe_map: name of the mapping
    sm_result,       \* safe_map: results, once and twice applied
    sd_batch,        \* split_demographics: the demographics column
    sd_result        \* split_demographics: outcome

scrapeVars == <<max_pages, site, playwright, browser, context, all_prisoners,
                skip, page_num, prisoners, outcome, exc, fetches, results,
                sessions>>
runVars == <<pc, run, rawFile, rawAtStart, skipped, rawWritten, harvestRun,
             envRemoved, transformRan, inputFound, transformFailed,
             wroteTransformed, wroteStats, exitStatus, observed>>
pureVars == <<sm_value, sm_table, sm_result, sd_batch, sd_result>>
vars == <<scrapeVars, runVars, pureVars>>

(* ------------------------- DynamicPrisonerScraper --------------------- *)
\* truth value of `max_pages` in `if max_pages and ...`
Truthy(m) == m # None /\ m # 0

\* the ceiling test, one page late
CeilingReachedLate(m, n) == Truthy(m) /\ n > m

\* if max_pages and page_num >= max_pages
CeilingReached(m, n) == Truthy(m) /\ n >= m

\* the page of the listing that ?skip=s shows
PageIndex(s) == s \div Stride

\* the record blocks of page i, in DOM order
Rows(i) == [j \in 1..site[i] |-> <<i, j>>]

\* what can happen inside the try block of get_page_data
Outcomes == {"ok", "goto_failed", "wait_timeout", "extract_failed"}

\* init_browser: the state of the session when step failAt raises
InitSteps == {"none", "start", "launch", "new_context", "new_page"}
InitBrowserState(failAt) ==
    [playwright |-> failAt # "start",
     browser    |-> failAt \notin {"start", "launch"},
     context    |-> failAt \notin {"start", "launch", "new_context"},
     raised     |-> failAt # "none"]

\* close_browser: context.close, browser.close, playwright.stop in this
\* order; a step that raises leaves its own and the later parts open
CloseSteps == {"none", "context", "browser", "stop"}
CloseBrowserState(failAt, p, b, c) ==
    [playwright |-> p /\ failAt # "none",
     browser    |-> b /\ failAt \in {"context", "browser"},
     context    |-> c /\ failAt = "context",
     raised     |-> failAt # "none"]

\* get_page_data without its except clause
GetPageDataResultRaising(o, rows) ==
    [raised |-> o # "ok", value |-> IF o = "ok" THEN rows ELSE <<>>]

\* get_page_data: the try block returns the rows, the except clause []
GetPageDataResult(o, rows) ==
    IF o = "ok" THEN [raised |-> FALSE, value |-> rows]
                ELSE [raised |-> FALSE, value |-> <<>>]

\* all_prisoners.extend(prisoners)
Extend(all, page) == all \o page

\* the stride taken from the stale comment "10 results per page"
NextSkipTen(s) == s + 10

\* skip += 20
NextSkip(s) == s + Stride

\* scrape_all_pages, line 91: await self.init_browser(), then the locals
InitBrowser ==
    /\ pc = "init_browser"
    /\ \E failAt \in InitSteps :
         LET st == InitBrowserState(failAt) IN
         /\ playwright' = st.playwright
         /\ browser' = st.browser
         /\ context' = st.context
         /\ exc' = st.raised
         /\ pc' = IF st.raised THEN "main_raised" ELSE "get_page_data"
    /\ sessions' = sessions + 1
    /\ all_prisoners' = <<>>
    /\ skip' = 0
    /\ page_num' = 1
    /\ UNCHANGED <<max_pages, site, prisoners, outcome, fetches, results>>
    /\ UNCHANGED <<run, rawFile, rawAtStart, skipped, rawWritten, harvestRun,
                   envRemoved, transformRan, inputFound, transformFailed,
                   wroteTransformed, wroteStats, exitStatus, observed>>
    /\ UNCHANGED pureVars

\* get_page_data(skip): wait_for_selector times out on a page without a
\* record block, so such a page never takes the "ok" path
GetPageData ==
    /\ pc = "get_page_data"
    /\ page_num <= MaxFetch
    /\ \E o \in Outcomes :
         /\ site[PageIndex(skip)] = 0 => o # "ok"
         /\ LET r == GetPageDataResult(o, Rows(PageIndex(skip))) IN
            /\ outcome' = o
            /\ prisoners' = r.value
            /\ exc' = r.raised
            /\ results' = IF r.raised THEN results ELSE Append(results, r.value)
            /\ pc' = IF r.raised THEN "close_browser" ELSE "loop"
    /\ fetches' = Append(fetches, skip)
    /\ UNCHANGED <<max_pages, site, playwright, browser, context,
                   all_prisoners, skip, page_num, sessions>>
    /\ UNCHANGED <<run, rawFile, rawAtStart, skipped, rawWritten, harvestRun,
                   envRemoved, transformRan, inputFound, transformFailed,
                   wroteTransformed, wroteStats, exitStatus, observed>>
    /\ UNCHANGED pureVars

\* the rest of one iteration of `while True`, lines 102-115
LoopBody ==
    /\ pc = "loop"
    /\ IF prisoners = <<>>
         THEN /\ pc' = "close_browser"
              /\ UNCHANGED <<all_prisoners, skip, page_num>>
         ELSE /\ all_prisoners' = Extend(all_prisoners, prisoners)
              /\ IF CeilingReached(max_pages, page_num)
                   THEN /\ pc' = "close_browser"
                        /\ UNCHANGED <<skip, page_num>>
                   ELSE /\ skip' = NextSkip(skip)
                        /\ page_num' = page_num + 1
                        /\ pc' = "get_page_data"
    /\ UNCHANGED <<max_pages, site, playwright, browser, context, prisoners,
                   outcome, exc, fetches, results, sessions>>
    /\ UNCHANGED <<run, rawFile, rawAtStart, skipped, rawWritten, harvestRun,
                   envRemoved, transformRan, inputFound, transformFailed,
                   wroteTransformed, wroteStats, exitStatus, observed>>
    /\ UNCHANGED pureVars

\* finally: await self.close_browser(); then return all_prisoners, or the
\* exception goes on to the caller
CloseBrowser ==
    /\ pc = "close_browser"
    /\ \E failAt \in CloseSteps :
         LET st == CloseBrowserState(failAt, playwright, browser, context) IN
         /\ playwright' = st.playwright
         /\ browser' = st.browser
         /\ context' = st.context
         /\ exc' = (exc \/ st.raised)
         /\ pc' = IF exc \/ st.raised THEN "main_raised" ELSE "save_to_csv"
    /\ UNCHANGED <<max_pages, site, all_prisoners, skip, page_num, prisoners,
                   outcome, fetches, results, sessions>>
    /\ UNCHANGED <<run, rawFile, rawAtStart, skipped, rawWritten, harvestRun,
                   envRemoved, transformRan, inputFound, transformFailed,
                   wroteTransformed, wroteStats, exitStatus, observed>>
    /\ UNCHANGED pureVars

(* ------------------------------ the full run -------------------------- *)
\* output/prisoners_data.csv: absent, or a file holding the saved records
NoFile == [exists |-> FALSE, rows |-> <<>>]
FileOf(rows) == [exists |-> TRUE, rows |-> rows]

\* a raw file left by an earlier harvest
OldFile == FileOf(<<<<0, 1>>>>)

\* scrap_data without the look for the file
SkipScrapingNever(file) == FALSE

\* if path.exists('output/prisoners_data.csv'): ... return
SkipScraping(file) == file.exists

\* scrap_data, lines 257-265: look for the file first
ScrapData ==
    /\ pc = "scrap_data"
    /\ rawAtStart' = rawFile.exists
    /\ IF SkipScraping(rawFile)
         THEN /\ skipped' = TRUE
              /\ pc' = "transform_data"
         ELSE /\ skipped' = FALSE
              /\ pc' = "init_browser"
    /\ UNCHANGED scrapeVars
    /\ UNCHANGED <<run, rawFile, rawWritten, harvestRun, envRemoved,
                   transformRan, inputFound, transformFailed,
                   wroteTransformed, wroteStats, exitStatus, observed>>
    /\ UNCHANGED pureVars

\* save_to_csv that writes no file for an empty harvest
SaveToCsvFileNonEmpty(o, data, old) ==
    CASE o = "ok" /\ data # <<>> -> [exists |-> TRUE, rows |-> data]
      [] o = "failed_truncated"  -> [exists |-> TRUE, rows |-> <<>>]
      [] OTHER                   -> old

\* save_to_csv: DataFrame(data).to_csv(filename); a write that fails leaves
\* no file or a truncated one and raises
SaveOutcomes == {"ok", "failed_no_file", "failed_truncated"}
SaveToCsvFile(o, data, old) ==
    CASE o = "ok"               -> FileOf(data)
      [] o = "failed_truncated" -> FileOf(<<>>)
      [] OTHER                  -> old

\* scrap_data, line 272; its normal return goes on to transform_data
SaveToCsv ==
    /\ pc = "save_to_csv"
    /\ \E o \in SaveOutcomes :
         /\ rawFile' = SaveToCsvFile(o, all_prisoners, rawFile)
         /\ rawWritten' = (o # "failed_no_file")
         /\ harvestRun' = IF o = "ok" THEN run ELSE harvestRun
         /\ exc' = (o # "ok")
         /\ pc' = IF o = "ok" THEN "transform_data" ELSE "main_raised"
    /\ UNCHANGED <<max_pages, site, playwright, browser, context,
                   all_prisoners, skip, page_num, prisoners, outcome, fetches,
                   results, sessions>>
    /\ UNCHANGED <<run, rawAtStart, skipped, envRemoved, transformRan,
                   inputFound, transformFailed, wroteTransformed, wroteStats,
                   exitStatus, observed>>
    /\ UNCHANGED pureVars

\* the environment: somebody removes the raw file between scrap_data and
\* the read_csv of transform_data
RemoveRawFile ==
    /\ pc = "transform_data"
    /\ rawFile.exists
    /\ rawFile' = NoFile
    /\ envRemoved' = TRUE
    /\ UNCHANGED scrapeVars
    /\ UNCHANGED <<pc, run, rawAtStart, skipped, rawWritten, harvestRun,
                   transformRan, inputFound, transformFailed,
                   wroteTransformed, wroteStats, exitStatus, observed>>
    /\ UNCHANGED pureVars

\* the statements of the try block of transform_data that can raise
TransformSteps == {"none", "read", "transform", "validate", "to_csv_open",
                   "to_csv_write", "stats_open", "stats_write"}

\* steps that can be the first to raise for this input file: a missing file
\* raises in read_csv; a file without records has no demographics column,
\* so it gets no further than transformer.transform_data
CanFailAt(file) ==
    IF ~file.exists THEN {"read"}
    ELSE IF file.rows = <<>> THEN {"read", "transform"}
    ELSE TransformSteps

\* transform_data, lines 275-317: what the stage has done when step failAt
\* raises: both except clauses log, none removes a file already written
TransformOutcome(failAt, file) ==
    [found  |-> file.exists,
     failed |-> failAt # "none",
     transformed |->
        CASE failAt \in {"read", "transform", "validate", "to_csv_open"}
                                    -> "nothing"
          [] failAt = "to_csv_write" -> "partial"
          [] OTHER                   -> "complete",
     stats |->
        CASE failAt = "none"        -> "complete"
          [] failAt = "stats_write" -> "partial"
          [] OTHER                  -> "nothing"]

\* main, line 321: transform_data()
TransformData ==
    /\ pc = "transform_data"
    /\ \E failAt \in CanFailAt(rawFile) :
         LET t == TransformOutcome(failAt, rawFile) IN
         /\ inputFound' = t.found
         /\ transformFailed' = t.failed
         /\ wroteTransformed' = t.transformed
         /\ wroteStats' = t.stats
    /\ transformRan' = TRUE
    /\ pc' = "main_return"
    /\ UNCHANGED scrapeVars
    /\ UNCHANGED <<run, rawFile, rawAtStart, skipped, rawWritten, harvestRun,
                   envRemoved, exitStatus, observed>>
    /\ UNCHANGED pureVars

\* exit status of `asyncio.run(main())`: 1 for an uncaught exception
ExitStatusOf(raised) == IF raised THEN 1 ELSE 0

\* main returns after transform_data
MainReturn ==
    /\ pc = "main_return"
    /\ exitStatus' = ExitStatusOf(FALSE)
    /\ observed' = observed \cup {<<inputFound, ExitStatusOf(FALSE)>>}
    /\ pc' = "exited"
    /\ UNCHANGED scrapeVars
    /\ UNCHANGED <<run, rawFile, rawAtStart, skipped, rawWritten, harvestRun,
                   envRemoved, transformRan, inputFound, transformFailed,
                   wroteTransformed, wroteStats>>
    /\ UNCHANGED pureVars

\* an exception of scrap_data leaves main at line 320
MainRaised ==
    /\ pc = "main_raised"
    /\ exitStatus' = ExitStatusOf(TRUE)
    /\ pc' = "exited"
    /\ UNCHANGED scrapeVars
    /\ UNCHANGED <<run, rawFile, rawAtStart, skipped, rawWritten, harvestRun,
                   envRemoved, transformRan, inputFound, transformFailed,
                   wroteTransformed, wroteStats, observed>>
    /\ UNCHANGED pureVars

\* the program is started again: a new process, the files stay
NextRun ==
    /\ pc = "exited"
    /\ run < MaxRuns
    /\ run' = run + 1
    /\ pc' = "scrap_data"
    /\ playwright' = FALSE /\ browser' = FALSE /\ context' = FALSE
    /\ all_prisoners' = <<>> /\ skip' = 0 /\ page_num' = 1
    /\ prisoners' = <<>> /\ outcome' = "none" /\ exc' = FALSE
    /\ fetches' = <<>> /\ results' = <<>> /\ sessions' = 0
    /\ rawAtStart' = FALSE /\ skipped' = FALSE /\ rawWritten' = FALSE
    /\ envRemoved' = FALSE /\ transformRan' = FALSE /\ inputFound' = FALSE
    /\ transformFailed' = FALSE
    /\ wroteTransformed' = "nothing" /\ wroteStats' = "nothing"
    /\ exitStatus' = -1
    /\ UNCHANGED <<max_pages, site, rawFile, harvestRun, observed>>
    /\ UNCHANGED pureVars

\* values of max_pages: None, or a page count
Ceilings == {None} \cup (0..MaxCeil)

\* listings: for each page the loop can ask for, its number of record blocks
Sites == [0..(MaxFetch - 1) -> 0..MaxRows]

PureIdle ==
    /\ sm_value = "" /\ sm_table = "none" /\ sm_result = <<>>
    /\ sd_batch = <<>> /\ sd_result = [raised |-> FALSE, rows |-> <<>>]

Init ==
    /\ pc = "scrap_data"
    /\ run = 1
    /\ max_pages \in Ceilings
    /\ site \in Sites
    /\ rawFile \in {NoFile, OldFile}
    /\ playwright = FALSE /\ browser = FALSE /\ context = FALSE
    /\ all_prisoners = <<>> /\ skip = 0 /\ page_num = 1
    /\ prisoners = <<>> /\ outcome = "none" /\ exc = FALSE
    /\ fetches = <<>> /\ results = <<>> /\ sessions = 0
    /\ rawAtStart = FALSE /\ skipped = FALSE /\ rawWritten = FALSE
    /\ harvestRun = 0
    /\ envRemoved = FALSE /\ transformRan = FALSE /\ inputFound = FALSE
    /\ transformFailed = FALSE
    /\ wroteTransformed = "nothing" /\ wroteStats = "nothing"
    /\ exitStatus = -1
    /\ observed = {}
    /\ PureIdle

Next ==
    \/ ScrapData
    \/ InitBrowser
    \/ GetPageData
    \/ LoopBody
    \/ CloseBrowser
    \/ SaveToCsv
    \/ RemoveRawFile
    \/ TransformData
    \/ MainReturn
    \/ MainRaised
    \/ NextRun

Spec == Init /\ [][Next]_vars

\* scrape_all_pages called on its own, with any max_pages
InitLoop ==
    /\ pc = "init_browser"
    /\ run = 1
    /\ max_pages \in Ceilings
    /\ site \in Sites
    /\ rawFile = NoFile
    /\ playwright = FALSE /\ browser = FALSE /\ context = FALSE
    /\ all_prisoners = <<>> /\ skip = 0 /\ page_num = 1
    /\ prisoners = <<>> /\ outcome = "none" /\ exc = FALSE
    /\ fetches = <<>> /\ results = <<>> /\ sessions = 0
    /\ rawAtStart = FALSE /\ skipped = FALSE /\ rawWritten = FALSE
    /\ harvestRun = 0
    /\ envRemoved = FALSE /\ transformRan = FALSE /\ inputFound = FALSE
    /\ transformFailed = FALSE
    /\ wroteTransformed = "nothing" /\ wroteStats = "nothing"
    /\ exitStatus = -1
    /\ observed = {}
    /\ PureIdle

NextLoop ==
    \/ InitBrowser
    \/ GetPageData
    \/ LoopBody
    \/ CloseBrowser

\* the call is one coroutine: it takes its next step whenever it has one
FairLoopSpec == InitLoop /\ [][NextLoop]_vars /\ WF_vars(NextLoop)

(* ------------------------ PrisonerDataTransformer --------------------- *)
\* None / NaN, what pd.isna accepts
Absent == "#absent"

organization_mapping ==
    [k \in {"חמאס", "פת\"ח", "ג'יהאד אסלאמי", "ללא", "חז\"ד", "חז\"ע",
            "דאע\"ש"} |->
        CASE k = "חמאס"          -> "HAMAS"
          [] k = "פת\"ח"         -> "FATAH"
          [] k = "ג'יהאד אסלאמי" -> "ISLAMIC JIHAD"
          [] k = "ללא"           -> "NONE"
          [] k = "חז\"ד"         -> "DFLP"
          [] k = "חז\"ע"         -> "PFLP"
          [] OTHER               -> "ISIS"]

citizenship_mapping ==
    [k \in {"לא", "כן"} |-> IF k = "לא" THEN "NO" ELSE "YES"]

status_mapping ==
    [k \in {"שפוט", "עצור מנהלי", "עצור"} |->
        CASE k = "שפוט"       -> "JUDGED"
          [] k = "עצור מנהלי" -> "ADMINISTRATIVE DETENTION"
          [] OTHER            -> "DETAINED"]

court_mapping ==
    [k \in {"בית משפט צבאי", "בית משפט אזרחי"} |->
        IF k = "בית משפט צבאי" THEN "MILITARY" ELSE "CIVILIAN"]

deportation_mapping ==
    [k \in {"לא", "כן, גירוש לצמיתות", "כן, גירוש מותנה"} |->
        CASE k = "לא"                -> "NO DEPORTATION"
          [] k = "כן, גירוש לצמיתות" -> "PERMANENT DEPORTATION"
          [] OTHER                   -> "CONDITIONNAL DEPORTATION"]

gender_mapping ==
    [k \in {"זכר", "נקבה"} |-> IF k = "זכר" THEN "MALE" ELSE "FEMALE"]

residence_mapping ==
    [k \in {"יהודה", "רצ\"ע", "שומרון", "י-ם", "חו\"ל", "קו ירוק"} |->
        CASE k = "יהודה"  -> "JUDEA"
          [] k = "רצ\"ע"  -> "GAZA STRIP"
          [] k = "שומרון" -> "SAMARIA"
          [] k = "י-ם"    -> "JERUSALEM"
          [] k = "חו\"ל"  -> "ABROAD"
          [] OTHER        -> "GREEN LINE"]

TableNames == {"organization", "citizenship", "status", "court",
               "deportation", "gender", "residence"}

\* the mapping dictionaries built by __init__
TableOf(name) ==
    CASE name = "organization" -> organization_mapping
      [] name = "citizenship"  -> citizenship_mapping
      [] name = "status"       -> status_mapping
      [] name = "court"        -> court_mapping
      [] name = "deportation"  -> deportation_mapping
      [] name = "gender"       -> gender_mapping
      [] OTHER                 -> residence_mapping

\* pd.isna(value)
IsNa(v) == v = Absent

\* safe_map with mapping.get(value) in place of mapping.get(value, value)
SafeMapNoDefault(v, T) ==
    IF IsNa(v) THEN Absent
    ELSE IF v \in DOMAIN T THEN T[v] ELSE Absent

\* safe_map(value, mapping)
SafeMap(v, T) ==
    IF IsNa(v) THEN Absent
    ELSE IF v \in DOMAIN T THEN T[v] ELSE v

\* the main program at rest, while a helper is exercised on its own
MainIdle ==
    /\ run = 1
    /\ max_pages = None
    /\ site = [i \in 0..(MaxFetch - 1) |-> 0]
    /\ rawFile = NoFile
    /\ playwright = FALSE /\ browser = FALSE /\ context = FALSE
    /\ all_prisoners = <<>> /\ skip = 0 /\ page_num = 1
    /\ prisoners = <<>> /\ outcome = "none" /\ exc = FALSE
    /\ fetches = <<>> /\ results = <<>> /\ sessions = 0
    /\ rawAtStart = FALSE /\ skipped = FALSE /\ rawWritten = FALSE
    /\ harvestRun = 0
    /\ envRemoved = FALSE /\ transformRan = FALSE /\ inputFound = FALSE
    /\ transformFailed = FALSE
    /\ wroteTransformed = "nothing" /\ wroteStats = "nothing"
    /\ exitStatus = -1
    /\ observed = {}

\* every key and every value of the seven tables
TableKeys == UNION {DOMAIN TableOf(n) : n \in TableNames}
TableValues == UNION {{TableOf(n)[k] : k \in DOMAIN TableOf(n)} : n \in TableNames}

\* cell values given to safe_map: absent, the keys, the codes, unmapped text
CellValues == {Absent, "", "אחר", "UNKNOWN"} \cup TableKeys \cup TableValues

InitSafeMap ==
    /\ pc = "safe_map"
    /\ sm_value \in CellValues
    /\ sm_table \in TableNames
    /\ sm_result = <<>>
    /\ sd_batch = <<>> /\ sd_result = [raised |-> FALSE, rows |-> <<>>]
    /\ MainIdle

\* safe_map applied to the cell, and once more to its own result
ApplySafeMap ==
    /\ pc = "safe_map"
    /\ LET once == SafeMap(sm_value, TableOf(sm_table)) IN
       sm_result' = <<once, SafeMap(once, TableOf(sm_table))>>
    /\ pc' = "safe_map_done"
    /\ UNCHANGED scrapeVars
    /\ UNCHANGED <<run, rawFile, rawAtStart, skipped, rawWritten, harvestRun,
                   envRemoved, transformRan, inputFound, transformFailed,
                   wroteTransformed, wroteStats, exitStatus, observed>>
    /\ UNCHANGED <<sm_value, sm_table, sd_batch, sd_result>>

NextSafeMap == ApplySafeMap

SpecSafeMap == InitSafeMap /\ [][NextSafeMap]_vars

\* C9: safe_map gives absent for absent, T[v] for a key v of T and v itself
\* otherwise, and applying it to its own result changes nothing, for each
\* of the seven tables.
C9_SafeMapIdempotent ==
    pc = "safe_map_done" =>
        /\ sm_value = Absent => sm_result[1] = Absent
        /\ (sm_value # Absent /\ sm_value \in DOMAIN TableOf(sm_table)) =>
              sm_result[1] = TableOf(sm_table)[sm_value]
        /\ (sm_value # Absent /\ sm_value \notin DOMAIN TableOf(sm_table)) =>
              sm_result[1] = sm_value
        /\ sm_result[2] = sm_result[1]

\* a value that is a key of another table passes through this one: the
\* deportation key "כן, גירוש מותנה" under the citizenship table
C9_Witness ==
    /\ pc = "safe_map_done"
    /\ sm_table = "citizenship"
    /\ sm_value \in DOMAIN deportation_mapping
    /\ sm_value \notin DOMAIN citizenship_mapping
    /\ sm_result = <<sm_value, sm_value>>

(* --------------------------- split_demographics ----------------------- *)
\* text is a sequence of units: a word, a digit, a blank or the comma
Units == {"זכר", "3", " ", ","}

RECURSIVE SplitOn(_, _)
\* str.split(','): the pieces between the commas, empty pieces kept
SplitOn(t, sep) ==
    IF \A i \in 1..Len(t) : t[i] # sep THEN <<t>>
    ELSE LET i == CHOOSE j \in 1..Len(t) :
                     t[j] = sep /\ \A h \in 1..(j - 1) : t[h] # sep
         IN <<SubSeq(t, 1, i - 1)>> \o SplitOn(SubSeq(t, i + 1, Len(t)), sep)

RECURSIVE Strip(_)
\* str.strip(): blanks removed at both ends
Strip(t) ==
    IF t = <<>> THEN t
    ELSE IF Head(t) = " " THEN Strip(Tail(t))
    ELSE IF t[Len(t)] = " " THEN Strip(SubSeq(t, 1, Len(t) - 1))
    ELSE t

RECURSIVE Text(_)
\* the string a sequence of units spells
Text(t) == IF t = <<>> THEN "" ELSE Head(t) \o Text(Tail(t))

RECURSIVE Decimal(_)
Decimal(t) == IF t = <<>> THEN 0 ELSE 10 * Decimal(SubSeq(t, 1, Len(t) - 1)) + 3

\* pd.to_numeric(..., errors='coerce') on one cell: a number, or NaN
ToNumeric(t) ==
    IF t # <<>> /\ \A i \in 1..Len(t) : t[i] = "3"
        THEN [na |-> FALSE, n |-> Decimal(t)]
        ELSE [na |-> TRUE, n |-> 0]

NaN == [na |-> TRUE, n |-> 0]

\* the composite of a record: absent, or a text
NoComposite == <<"#absent">>
\* an empty cell of the CSV is read back as absent, never as empty text
Texts == UNION {[1..n -> Units] : n \in 1..MaxCompLen}
Composites == {NoComposite} \cup Texts
Batches == UNION {[1..n -> Composites] : n \in 1..MaxBatch}

Max(S) == CHOOSE x \in S : \A y \in S : y <= x

\* columns of str.split(',', expand=True): the most pieces of any row
SplitColumns(batch) ==
    Max({0} \cup {Len(SplitOn(batch[i], ",")) :
                     i \in {j \in 1..Len(batch) : batch[j] # NoComposite}})

\* column c of the expanded split, stripped: None where the row has no
\* such piece, NaN where the composite is absent
SplitCell(comp, c) ==
    IF comp = NoComposite THEN <<"#absent">>
    ELSE LET parts == SplitOn(comp, ",") IN
         IF c <= Len(parts) THEN Strip(parts[c]) ELSE <<"#absent">>

CellText(cell) == IF cell = <<"#absent">> THEN Absent ELSE Text(cell)

\* split_demographics(df), lines 186-206, on the demographics column:
\* .str needs a column holding text, and split_data[1], split_data[2] need
\* the expanded split to have these columns
SplitDemographics(batch) ==
    IF \A i \in 1..Len(batch) : batch[i] = NoComposite
        THEN [raised |-> TRUE, rows |-> <<>>]
    ELSE IF SplitColumns(batch) < 3
        THEN [raised |-> TRUE, rows |-> <<>>]
    ELSE [raised |-> FALSE,
          rows |-> [i \in 1..Len(batch) |->
             [gender |-> SafeMap(CellText(SplitCell(batch[i], 1)),
                                 gender_mapping),
              age |-> IF SplitCell(batch[i], 2) = <<"#absent">> THEN NaN
                      ELSE ToNumeric(SplitCell(batch[i], 2)),
              residence |-> SafeMap(CellText(SplitCell(batch[i], 3)),
                                    residence_mapping)]]]

InitSplit ==
    /\ pc = "split_demographics"
    /\ sd_batch \in Batches
    /\ sd_result = [raised |-> FALSE, rows |-> <<>>]
    /\ sm_value = "" /\ sm_table = "none" /\ sm_result = <<>>
    /\ MainIdle

ApplySplitDemographics ==
    /\ pc = "split_demographics"
    /\ sd_result' = SplitDemographics(sd_batch)
    /\ pc' = "split_done"
    /\ UNCHANGED scrapeVars
    /\ UNCHANGED <<run, rawFile, rawAtStart, skipped, rawWritten, harvestRun,
                   envRemoved, transformRan, inputFound, transformFailed,
                   wroteTransformed, wroteStats, exitStatus, observed>>
    /\ UNCHANGED <<sm_value, sm_table, sm_result, sd_batch>>

NextSplit == ApplySplitDemographics

SpecSplit == InitSplit /\ [][NextSplit]_vars

\* pieces of a composite, counted on the text itself
Commas(t) == Cardinality({i \in 1..Len(t) : t[i] = ","})

\* C8: split_demographics never raises; a record whose composite is absent
\* gets gender, age and residence absent, a record with fewer than three
\* pieces gets absent for the missing ones, and an age piece that is not a
\* number gives an absent age.
C8_SplitNeverRaises ==
    pc = "split_done" =>
        /\ ~sd_result.raised
        /\ Len(sd_result.rows) = Len(sd_batch)
        /\ \A i \in 1..Len(sd_batch) :
             LET r == sd_result.rows[i] IN
             /\ sd_batch[i] = NoComposite =>
                   (r.gender = Absent /\ r.age.na /\ r.residence = Absent)
             /\ (sd_batch[i] # NoComposite /\ Commas(sd_batch[i]) < 2) =>
                   r.residence = Absent
             /\ (sd_batch[i] # NoComposite /\ Commas(sd_batch[i]) < 1) =>
                   r.age.na
             /\ (sd_batch[i] # NoComposite /\ Commas(sd_batch[i]) >= 1) =>
                   LET p == Strip(SplitOn(sd_batch[i], ",")[2]) IN
                   (p = <<>> \/ \E h \in 1..Len(p) : p[h] # "3") => r.age.na

(* ------------------------------ properties ---------------------------- *)
RECURSIVE ConcatPages(_, _)
ConcatPages(rs, k) == IF k = 0 THEN <<>> ELSE ConcatPages(rs, k - 1) \o rs[k]

FailureOutcomes == {"goto_failed", "wait_timeout", "extract_failed"}

\* C1: without a ceiling, when scrape_all_pages returns after k+1 fetches,
\* the fetches were at offsets 0, 20, ..., 20k in this order, fetch k+1 was
\* the first to return an empty page, every non-empty page result is the
\* page's record blocks in DOM order, and the returned list is the
\* concatenation of the results of fetches 1..k in page order.
C1_PagesInOrder ==
    (pc = "save_to_csv" /\ max_pages = None) =>
        LET k == Len(fetches) - 1 IN
        /\ k >= 0
        /\ Len(results) = k + 1
        /\ \A i \in 1..(k + 1) : fetches[i] = 20 * (i - 1)
        /\ results[k + 1] = <<>>
        /\ \A i \in 1..k :
             /\ results[i] # <<>>
             /\ results[i] = [j \in 1..site[i - 1] |-> <<i - 1, j>>]
        /\ all_prisoners = ConcatPages(results, k)

\* two non-empty pages and then an empty one, three records in all
C1_Witness ==
    /\ pc = "save_to_csv" /\ max_pages = None
    /\ Len(fetches) = 3 /\ Len(all_prisoners) = 3

LastResultEmpty == Len(results) >= 1 /\ results[Len(results)] = <<>>

\* C2 as stated: the loop leaves exactly on an empty result or a reached
\* ceiling, and with a ceiling N it performs at most N fetches.
C2_AsStated ==
    /\ pc = "close_browser" =>
          (LastResultEmpty \/ (max_pages # None /\ page_num >= max_pages))
    /\ max_pages # None => Len(fetches) <= max_pages

\* the loop has left, or the run has gone on from there
LoopLeft == pc \notin {"scrap_data", "init_browser", "get_page_data", "loop"}

\* C2, amended: with a ceiling N >= 1 (max_pages = 0 counts as no ceiling)
\* the loop leaves exactly on an empty result or when page_num has reached
\* N, performs at most N fetches, goes on whenever neither holds, and a
\* loop that has been entered is eventually left if a ceiling N >= 1 is set
\* or some page it can reach is empty.
C2_Termination ==
    /\ [](pc = "close_browser" =>
            (LastResultEmpty \/ (max_pages >= 1 /\ page_num >= max_pages)))
    /\ []((pc = "get_page_data" /\ Len(fetches) >= 1) =>
            /\ ~LastResultEmpty
            /\ ~(max_pages >= 1 /\ page_num - 1 >= max_pages))
    /\ [](max_pages >= 1 => Len(fetches) <= max_pages)
    /\ (pc = "get_page_data"
          /\ (max_pages >= 1 \/ \E i \in DOMAIN site : site[i] = 0))
         ~> LoopLeft

\* the loop is left because the ceiling 2 is reached, on a non-empty page
C2_Witness ==
    /\ pc = "close_browser" /\ max_pages = 2
    /\ Len(fetches) = 2 /\ prisoners # <<>>

\* C3: when scrape_all_pages has returned or raised, it has acquired one
\* session and the driver, the browser and the context are all released.
C3_SessionReleased ==
    (~skipped /\ pc \in {"save_to_csv", "main_raised"}) =>
        /\ sessions = 1
        /\ ~playwright /\ ~browser /\ ~context

\* C4: a failure inside get_page_data gives the empty page result and no
\* exception: nothing propagates into the loop, the loop never goes on
\* after a failed fetch, and the list returned is what was accumulated
\* before it.
C4_FailureIsEmptyPage ==
    /\ outcome \in FailureOutcomes =>
          /\ prisoners = <<>>
          /\ Len(results) = Len(fetches)
          /\ LastResultEmpty
    /\ pc \in {"loop", "close_browser"} => ~exc
    /\ (pc = "get_page_data" /\ Len(fetches) >= 1) => outcome = "ok"
    /\ (pc = "save_to_csv" /\ outcome \in FailureOutcomes) =>
          all_prisoners = ConcatPages(results, Len(results) - 1)

\* navigation fails on the second page although it has record blocks
C4_Witness ==
    /\ pc = "save_to_csv" /\ outcome = "goto_failed"
    /\ Len(fetches) = 2 /\ site[1] > 0 /\ Len(all_prisoners) > 0

\* C5: in a run that finds the raw file, no session is started, no page is
\* fetched and the run does not write the raw file.
C5_SkipWhenFileExists ==
    rawAtStart =>
        /\ skipped
        /\ sessions = 0 /\ ~playwright /\ ~browser /\ ~context
        /\ fetches = <<>>
        /\ ~rawWritten
        /\ (~envRemoved => rawFile.exists)

\* the second run after a run that harvested and saved the file
C5_Witness ==
    /\ run = 2 /\ harvestRun = 1 /\ rawAtStart
    /\ pc = "exited" /\ fetches = <<>>

\* C6: every finished run has run transform_data, and no exit status is
\* shared by a run that found the input file and a run that did not.
C6_ExitStatusReflectsInput ==
    /\ pc = "exited" => transformRan
    /\ \A a \in observed : \A b \in observed :
          a[1] # b[1] => a[2] # b[2]

\* C7: a transform stage that failed has written nothing of either output.
C7_AllOrNothing ==
    transformFailed =>
        (wroteTransformed = "nothing" /\ wroteStats = "nothing")

\* C10: after an extraction that returned normally the raw file exists and
\* holds the harvest, also an empty one; and a later run that finds the
\* file skips extraction.
C10_EmptyHarvestIsKept ==
    /\ (pc = "transform_data" /\ ~skipped /\ ~envRemoved) =>
          (rawFile.exists /\ rawFile.rows = all_prisoners)
    /\ (harvestRun >= 1 /\ run > harvestRun /\ rawAtStart) =>
          (skipped /\ fetches = <<>> /\ sessions = 0)

\* the first fetch of run 1 failed on a page with record blocks; run 2
\* skips extraction over the empty file
C10_Witness ==
    /\ run = 2 /\ harvestRun = 1 /\ skipped /\ pc = "exited"
    /\ rawFile = FileOf(<<>>) /\ site[0] > 0

====
